---- MODULE Spec2Model ----
(***************************************************************************)
(* SmartDataLoader (src/smartdataloader.py): a batching utility that       *)
(* shuffles a paired corpus once at construction and then yields, per      *)
(* batch of batch_size sentences, a pair of padded time-major tensors.     *)
(*                                                                         *)
(* Python lists are objects: the model keeps a heap from addresses to      *)
(* token sequences, so that the in-place padding of _build_tensor and the  *)
(* sharing (or not) of list objects between the caller and the instance    *)
(* are part of the state.                                                  *)
(***************************************************************************)
EXTENDS Integers, Sequences, FiniteSets, TLC

\* ---------------------------------------------------------------- bounds
MaxN == 3
MaxLen == 2
MaxBatch == 3

\* ------------------------------------------------------------ small helpers
Max2(a, b) == IF a >= b THEN a ELSE b
Min2(a, b) == IF a <= b THEN a ELSE b

\* Python's optional arguments: None is the empty sequence, a value v is <<v>>.
None == <<>>
Some(v) == <<v>>

\* Python's a // b (floor division) for b # 0.
FloorDiv(a, b) ==
  IF b > 0 THEN a \div b
  ELSE -((a + (-b) - 1) \div (-b))

\* --------------------------------------------------------------- the inputs
\* Token ids of the corpora the caller builds: the id tells the side (1 input,
\* 2 output), the sentence and the position, so that every token of the corpus
\* is distinct and none is the pad id.
Tok(side, i, p) == side * 100 + i * 10 + p
Doc(side, i, L) == [p \in 1..L |-> Tok(side, i, p)]

PadTokens == {0}
BatchSizes == -1..MaxBatch
RandomSeeds == {0, 1}
LenTuples == UNION {[1..n -> 0..MaxLen] : n \in 0..MaxN}

\* Addresses of list objects: <<kind, i>>.
Addrs(kind, n) == [i \in 1..n |-> <<kind, i>>]

VARIABLES
  heap,          \* address of a list object -> its tokens
  orig,          \* the heap as the caller built it, before construction
  input_vocab,   \* the caller's input Vocabulary object
  output_vocab,  \* the caller's output Vocabulary object
  args,          \* the other constructor arguments
  self,          \* the SmartDataLoader instance
  gens,          \* the generator objects made by __iter__
  lenResult      \* what the last __len__ call returned

vars == <<heap, orig, input_vocab, output_vocab, args, self, gens, lenResult>>

Gens == {1, 2}

NoSelf ==
  [state |-> "absent", input_vocab |-> <<>>, output_vocab |-> <<>>,
   batch_size |-> 0, n_sentences |-> 0, PAD_TOKEN |-> 0, random_seed |-> 0]

IdleGen == [status |-> "idle", sent_idx |-> 0, out |-> <<>>]

\* ------------------------------------------------------------ initial state
\* The caller's world before SmartDataLoader(...) is called. Three ways a
\* caller supplies the corpus:
\*   "vocab": no override lists; the vocabularies hold the corpus (the two
\*            sides may differ in count);
\*   "slice": the override lists are the first m pairs of the vocabularies'
\*            own collections (the sequences are the same list objects, as
\*            in docs_tokens_encoded[:m]);
\*   "fresh": the override lists hold K new list objects and the
\*            vocabularies store m sequences of their own.
SourceModes == {"vocab", "slice", "fresh"}

Side(kind) == IF kind \in {"in", "in_arg", "in_copy"} THEN 1 ELSE 2

InitHeap(lensIn, lensOut, nIn, nOut, nArg) ==
  LET dom == {<<"in", i>> : i \in 1..nIn} \cup {<<"out", i>> : i \in 1..nOut}
             \cup {<<"in_arg", i>> : i \in 1..nArg}
             \cup {<<"out_arg", i>> : i \in 1..nArg}
  IN [a \in dom |->
        Doc(Side(a[1]), a[2], IF Side(a[1]) = 1 THEN lensIn[a[2]] ELSE lensOut[a[2]])]

Init ==
  \E lensIn \in LenTuples, lensOut \in LenTuples, B \in BatchSizes,
     seed \in RandomSeeds, pad \in PadTokens, mode \in SourceModes, m \in 0..MaxN :
    LET K == Len(lensIn)
        nIn == IF mode = "fresh" THEN m ELSE K
        nOut == IF mode = "fresh" THEN m ELSE Len(lensOut)
        nArg == IF mode = "fresh" THEN K ELSE 0
        h == InitHeap(lensIn, lensOut, nIn, nOut, nArg)
    IN /\ mode = "vocab" => m = 0
       /\ mode # "vocab" => (Len(lensOut) = K /\ K >= 1 /\ m <= K)
       /\ mode = "slice" => m >= 1
       /\ heap = h
       /\ orig = h
       /\ input_vocab = [docs_tokens_encoded |-> Addrs("in", nIn), PAD_TOKEN |-> pad]
       /\ output_vocab = [docs_tokens_encoded |-> Addrs("out", nOut), PAD_TOKEN |-> pad]
       /\ args = [batch_size |-> B,
                  input_docs_tokens_encoded |->
                    CASE mode = "vocab" -> None
                      [] mode = "slice" -> Some(Addrs("in", m))
                      [] mode = "fresh" -> Some(Addrs("in_arg", K)),
                  output_docs_tokens_encoded |->
                    CASE mode = "vocab" -> None
                      [] mode = "slice" -> Some(Addrs("out", m))
                      [] mode = "fresh" -> Some(Addrs("out_arg", K)),
                  random_seed |-> seed]
       /\ self = NoSelf
       /\ gens = [g \in Gens |-> IdleGen]
       /\ lenResult = None

\* ------------------------------------------------------------- construction
\* copy.deepcopy of a Vocabulary: a new object whose encoded sequences are new
\* list objects with the same tokens.
DeepCopy(h, vocab, kind) ==
  LET n == Len(vocab.docs_tokens_encoded)
      fresh == {<<kind, i>> : i \in 1..n}
  IN [heap |-> [a \in DOMAIN h \cup fresh |->
                  IF a \in fresh THEN h[vocab.docs_tokens_encoded[a[2]]] ELSE h[a]],
      vocab |-> [vocab EXCEPT !.docs_tokens_encoded = Addrs(kind, n)]]

\* zip(a, b): pairs up to the shorter of the two.
Zip(a, b) == [k \in 1..Min2(Len(a), Len(b)) |-> <<a[k], b[k]>>]

\* np.random.seed(seed); np.random.shuffle(list of n items): the permutation
\* numpy's MT19937 Fisher-Yates shuffle produces, as 1-based source positions
\* (position k of the result holds item ShuffleOrder(seed, n)[k] of the list).
ShuffleOrder(seed, n) ==
  CASE seed = 0 /\ n = 0 -> <<>>
    [] seed = 0 /\ n = 1 -> <<1>>
    [] seed = 0 /\ n = 2 -> <<2, 1>>
    [] seed = 0 /\ n = 3 -> <<3, 2, 1>>
    [] seed = 0 /\ n = 4 -> <<3, 4, 2, 1>>
    [] seed = 0 /\ n = 5 -> <<3, 1, 2, 4, 5>>
    [] seed = 1 /\ n = 0 -> <<>>
    [] seed = 1 /\ n = 1 -> <<1>>
    [] seed = 1 /\ n = 2 -> <<1, 2>>
    [] seed = 1 /\ n = 3 -> <<1, 3, 2>>
    [] seed = 1 /\ n = 4 -> <<4, 3, 1, 2>>
    [] seed = 1 /\ n = 5 -> <<3, 2, 5, 1, 4>>

NpShuffle(seed, xs) ==
  LET p == ShuffleOrder(seed, Len(xs)) IN [k \in 1..Len(xs) |-> xs[p[k]]]

\* _shuffle_vocab_data on the instance's two vocabulary copies. The unpacking
\* "a, b = zip(*joined)" raises ValueError when joined is empty.
ShuffleVocabData(in_docs, out_docs, seed) ==
  LET joined == NpShuffle(seed, Zip(in_docs, out_docs))
  IN IF Len(joined) = 0
     THEN [raised |-> TRUE, in_docs |-> <<>>, out_docs |-> <<>>]
     ELSE [raised |-> FALSE,
           in_docs |-> [k \in 1..Len(joined) |-> joined[k][1]],
           out_docs |-> [k \in 1..Len(joined) |-> joined[k][2]]]

\* SmartDataLoader.__init__ as a function of the heap and the arguments: the
\* instance it leaves (state "ValueError" when _shuffle_vocab_data raised, and
\* then no instance exists) and the heap with the deep copies. The instance's
\* input_vocab and output_vocab fields are the docs_tokens_encoded tuples of
\* its two vocabulary objects, the only state of them the class touches.
NewLoader(h, in_vocab, out_vocab, a) ==
  LET ci == DeepCopy(h, in_vocab, "in_copy")
      co == DeepCopy(ci.heap, out_vocab, "out_copy")
      both == /\ a.input_docs_tokens_encoded # None
              /\ a.output_docs_tokens_encoded # None
      in_docs == IF both THEN a.input_docs_tokens_encoded[1]
                 ELSE ci.vocab.docs_tokens_encoded
      out_docs == IF both THEN a.output_docs_tokens_encoded[1]
                  ELSE co.vocab.docs_tokens_encoded
      sh == ShuffleVocabData(in_docs, out_docs, a.random_seed)
  IN [heap |-> co.heap,
      self |-> IF sh.raised
               THEN [NoSelf EXCEPT !.state = "ValueError"]
               ELSE [state |-> "ok",
                     input_vocab |-> sh.in_docs,
                     output_vocab |-> sh.out_docs,
                     batch_size |-> a.batch_size,
                     n_sentences |-> Len(in_vocab.docs_tokens_encoded),
                     PAD_TOKEN |-> in_vocab.PAD_TOKEN,
                     random_seed |-> a.random_seed]]

Rng(s) == {s[k] : k \in 1..Len(s)}
OptRng(o) == IF o = None THEN {} ELSE Rng(o[1])

\* The list objects still referenced by the caller or by the instance s (the
\* rest is garbage).
Live(s) ==
  Rng(input_vocab.docs_tokens_encoded) \cup Rng(output_vocab.docs_tokens_encoded)
  \cup OptRng(args.input_docs_tokens_encoded) \cup OptRng(args.output_docs_tokens_encoded)
  \cup Rng(s.input_vocab) \cup Rng(s.output_vocab)

\* loader = SmartDataLoader(input_vocab, output_vocab, batch_size, ..., random_seed)
Construct ==
  /\ self.state = "absent"
  /\ LET made == NewLoader(heap, input_vocab, output_vocab, args)
     IN /\ self' = made.self
        /\ heap' = [a \in Live(made.self) |-> made.heap[a]]
  /\ UNCHANGED <<orig, input_vocab, output_vocab, args, gens, lenResult>>

\* ---------------------------------------------------------- _build_tensor
\* list.insert(-1, x): before the last element; into an empty list, at 0.
InsertBeforeLast(s, x) ==
  IF Len(s) = 0 THEN <<x>>
  ELSE SubSeq(s, 1, Len(s) - 1) \o <<x>> \o <<s[Len(s)]>>

\* "for _ in range(pads_needed): doc.insert(-1, PAD_TOKEN)"
RECURSIVE PadTo(_, _, _)
PadTo(s, pads_needed, pad) ==
  IF pads_needed <= 0 THEN s
  ELSE PadTo(InsertBeforeLast(s, pad), pads_needed - 1, pad)

\* A faulty MaxLenOf: the maximum counts one more position than the longest
\* list has.
RECURSIVE MaxLenOfPlusOne(_, _, _)
MaxLenOfPlusOne(h, doc_pairs, side) ==
  IF doc_pairs = <<>> THEN 1
  ELSE Max2(Len(h[Head(doc_pairs)[side]]) + 1, MaxLenOfPlusOne(h, Tail(doc_pairs), side))

\* The first loop of _build_tensor: the longest list of one side of the batch.
RECURSIVE MaxLenOf(_, _, _)
MaxLenOf(h, doc_pairs, side) ==
  IF doc_pairs = <<>> THEN 0
  ELSE Max2(Len(h[Head(doc_pairs)[side]]), MaxLenOf(h, Tail(doc_pairs), side))

\* The second loop of _build_tensor, pair by pair: both lengths are read
\* first, then the input list and the output list are padded in place.
RECURSIVE PadPairs(_, _, _, _, _)
PadPairs(h, doc_pairs, input_max_len, output_max_len, pad) ==
  IF doc_pairs = <<>> THEN h
  ELSE LET a == Head(doc_pairs)[1]
           b == Head(doc_pairs)[2]
           input_len == Len(h[a])
           output_len == Len(h[b])
           h1 == IF input_len < input_max_len
                 THEN [h EXCEPT ![a] = PadTo(h[a], input_max_len - input_len, pad)]
                 ELSE h
           h2 == IF output_len < output_max_len
                 THEN [h1 EXCEPT ![b] = PadTo(h1[b], output_max_len - output_len, pad)]
                 ELSE h1
       IN PadPairs(h2, Tail(doc_pairs), input_max_len, output_max_len, pad)

\* A faulty Transposed: the array is returned batch-major, not transposed.
NotTransposed(h, docs) ==
  LET B == Len(docs)
      M == IF B = 0 THEN 0 ELSE Len(h[docs[1]])
  IN IF \E j \in 1..B : Len(h[docs[j]]) # M
     THEN [raised |-> TRUE, shape |-> <<0, 0>>, rows |-> <<>>]
     ELSE [raised |-> FALSE, shape |-> <<B, M>>,
           rows |-> [j \in 1..B |-> h[docs[j]]]]

\* np.transpose(np.array(docs)): docs are B lists; when all have length M the
\* array is (B, M) and its transpose (M, B); lists of unequal lengths make no
\* integer array (raised).
Transposed(h, docs) ==
  LET B == Len(docs)
      M == IF B = 0 THEN 0 ELSE Len(h[docs[1]])
  IN IF \E j \in 1..B : Len(h[docs[j]]) # M
     THEN [raised |-> TRUE, shape |-> <<0, 0>>, rows |-> <<>>]
     ELSE [raised |-> FALSE, shape |-> <<M, B>>,
           rows |-> [r \in 1..M |-> [j \in 1..B |-> h[docs[j]][r]]]]

\* _build_tensor(doc_pairs): the heap after the in-place padding and the pair
\* of tensors read from the padded list objects.
BuildTensor(h, doc_pairs, pad) ==
  LET input_max_len == MaxLenOf(h, doc_pairs, 1)
      output_max_len == MaxLenOf(h, doc_pairs, 2)
      h2 == PadPairs(h, doc_pairs, input_max_len, output_max_len, pad)
      tin == Transposed(h2, [j \in 1..Len(doc_pairs) |-> doc_pairs[j][1]])
      tout == Transposed(h2, [j \in 1..Len(doc_pairs) |-> doc_pairs[j][2]])
  IN [heap |-> h2, raised |-> tin.raised \/ tout.raised,
      input |-> [shape |-> tin.shape, rows |-> tin.rows],
      output |-> [shape |-> tout.shape, rows |-> tout.rows]]

\* ----------------------------------------------------------------- __iter__
\* A faulty Walk: the trailing partial batch is yielded at the end of the
\* range instead of being dropped.
RECURSIVE WalkKeepLast(_, _, _, _)
WalkKeepLast(s, sent_idx, batch, collected) ==
  IF sent_idx >= s.n_sentences
  THEN [kind |-> IF collected = <<>> THEN "stop" ELSE "yield",
        sent_idx |-> sent_idx, collected |-> collected]
  ELSE IF sent_idx >= Len(s.input_vocab) \/ sent_idx >= Len(s.output_vocab)
  THEN [kind |-> "IndexError", sent_idx |-> sent_idx, collected |-> collected]
  ELSE LET b == batch + 1
           c == Append(collected,
                       <<s.input_vocab[sent_idx + 1], s.output_vocab[sent_idx + 1]>>)
       IN IF b = s.batch_size
          THEN [kind |-> "yield", sent_idx |-> sent_idx + 1, collected |-> c]
          ELSE WalkKeepLast(s, sent_idx + 1, b, c)

\* The body of the generator of instance s from where it is suspended (sent_idx sentences
\* consumed, batch = 0, collected = []) to its next yield, to the end of the
\* range (StopIteration) or to an IndexError of the tuple indexing.
RECURSIVE Walk(_, _, _, _)
Walk(s, sent_idx, batch, collected) ==
  IF sent_idx >= s.n_sentences
  THEN [kind |-> "stop", sent_idx |-> sent_idx, collected |-> collected]
  ELSE IF sent_idx >= Len(s.input_vocab) \/ sent_idx >= Len(s.output_vocab)
  THEN [kind |-> "IndexError", sent_idx |-> sent_idx, collected |-> collected]
  ELSE LET b == batch + 1
           c == Append(collected,
                       <<s.input_vocab[sent_idx + 1], s.output_vocab[sent_idx + 1]>>)
       IN IF b = s.batch_size
          THEN [kind |-> "yield", sent_idx |-> sent_idx + 1, collected |-> c]
          ELSE Walk(s, sent_idx + 1, b, c)

\* One next() on a generator gen of instance s, on heap h: the generator and
\* the heap afterwards.
StepGen(s, h, gen) ==
  LET w == Walk(s, gen.sent_idx, 0, <<>>)
      t == BuildTensor(h, w.collected, s.PAD_TOKEN)
  IN IF w.kind = "yield"
     THEN [heap |-> t.heap,
           gen |-> IF t.raised
                   THEN [gen EXCEPT !.status = "ValueError", !.sent_idx = w.sent_idx]
                   ELSE [gen EXCEPT !.sent_idx = w.sent_idx,
                                    !.out = Append(@, <<t.input, t.output>>)]]
     ELSE [heap |-> h,
           gen |-> [gen EXCEPT !.status = IF w.kind = "stop" THEN "done" ELSE w.kind,
                               !.sent_idx = w.sent_idx]]

\* iter(loader): a new generator object; its body has not started. A new
\* generator takes the lowest free slot.
Iter(g) ==
  /\ self.state = "ok"
  /\ gens[g].status = "idle"
  /\ \A k \in Gens : k < g => gens[k].status # "idle"
  /\ gens' = [gens EXCEPT ![g] = [IdleGen EXCEPT !.status = "running"]]
  /\ UNCHANGED <<heap, orig, input_vocab, output_vocab, args, self, lenResult>>

\* next(generator): one whole step of the generator body.
NextStep(g) ==
  /\ self.state = "ok"
  /\ gens[g].status = "running"
  /\ LET r == StepGen(self, heap, gens[g])
     IN /\ heap' = r.heap
        /\ gens' = [gens EXCEPT ![g] = r.gen]
  /\ UNCHANGED <<orig, input_vocab, output_vocab, args, self, lenResult>>

\* The consumer drops a generator (finished, failed or part-way). The slots
\* are interchangeable, so the last one taken is the one dropped.
Abandon(g) ==
  /\ gens[g].status # "idle"
  /\ \A k \in Gens : k > g => gens[k].status = "idle"
  /\ gens' = [gens EXCEPT ![g] = IdleGen]
  /\ UNCHANGED <<heap, orig, input_vocab, output_vocab, args, self, lenResult>>

\* ------------------------------------------------------------------ __len__
\* loader.__len__(): ZeroDivisionError (raised) for batch_size 0, else the
\* floor quotient, which is negative for a negative batch_size.
LenOp ==
  /\ self.state = "ok"
  /\ lenResult' =
       IF self.batch_size = 0 THEN Some([raised |-> TRUE, value |-> 0])
       ELSE Some([raised |-> FALSE,
                  value |-> FloorDiv(self.n_sentences, self.batch_size)])
  /\ UNCHANGED <<heap, orig, input_vocab, output_vocab, args, self, gens>>

Next ==
  \/ Construct
  \/ \E g \in Gens : Iter(g)
  \/ \E g \in Gens : NextStep(g)
  \/ \E g \in Gens : Abandon(g)
  \/ LenOp

Spec == Init /\ [][Next]_vars

\* =================================================================== claims
\* ------------------------------------------------ vocabulary of the claims
Constructed == self.state = "ok"

\* Both override lists were passed to the constructor.
Overridden ==
  /\ args.input_docs_tokens_encoded # None
  /\ args.output_docs_tokens_encoded # None

\* The two collections the instance is asked to batch.
CorpusIn ==
  IF Overridden THEN args.input_docs_tokens_encoded[1]
  ELSE input_vocab.docs_tokens_encoded
CorpusOut ==
  IF Overridden THEN args.output_docs_tokens_encoded[1]
  ELSE output_vocab.docs_tokens_encoded

\* What the input vocabulary itself stores.
StoredN == Len(input_vocab.docs_tokens_encoded)

\* The caller's list object a list object of the instance was copied from.
Origin(a) ==
  CASE a[1] = "in_copy" -> <<"in", a[2]>>
    [] a[1] = "out_copy" -> <<"out", a[2]>>
    [] OTHER -> a

\* The tokens a list object held before construction.
OrigDoc(a) == orig[Origin(a)]

\* The heap right after construction, before any padding.
Pristine == [a \in DOMAIN heap |-> OrigDoc(a)]

Column(t, j) == [r \in 1..Len(t.rows) |-> t.rows[r][j]]
TokensOf(t) == {t.rows[r][j] : r \in 1..Len(t.rows), j \in 1..t.shape[2]}
NonPad(col) == SelectSeq(col, LAMBDA x : x # self.PAD_TOKEN)
Pads(n) == [k \in 1..n |-> self.PAD_TOKEN]
IsPrefix(a, b) == Len(a) <= Len(b) /\ SubSeq(b, 1, Len(a)) = a

RECURSIVE MaxOrigLen(_)
MaxOrigLen(addrs) ==
  IF addrs = <<>> THEN 0 ELSE Max2(Len(OrigDoc(Head(addrs))), MaxOrigLen(Tail(addrs)))

\* The k-th contiguous run of batch_size sentences of a shuffled side.
BatchRun(docs, k) ==
  SubSeq(docs, (k - 1) * self.batch_size + 1, k * self.batch_size)

\* for batch in loader: a generator of instance s driven to its end on heap h.
RECURSIVE Drain(_, _, _)
Drain(s, h, gen) ==
  IF gen.status # "running" THEN gen
  ELSE LET r == StepGen(s, h, gen) IN Drain(s, r.heap, r.gen)

NewGen == [IdleGen EXCEPT !.status = "running"]

\* The first complete iteration of a fresh instance.
FirstIteration == Drain(self, Pristine, NewGen)

\* The emitted pairs so far, as (generator, batch number).
Emitted == {<<g, k>> \in Gens \X (1..MaxN) : k <= Len(gens[g].out)}

\* ----------------------------------------------------------------------- C1
\* The corpus is N >= 1 pairs, the count the vocabularies store, and
\* batch_size >= 1.
C1_Applies ==
  /\ Len(CorpusIn) = Len(CorpusOut)
  /\ Len(CorpusIn) = StoredN
  /\ StoredN >= 1
  /\ args.batch_size >= 1

C2_TimeMajor ==
  Constructed =>
    \A e \in Emitted :
      LET pair == gens[e[1]].out[e[2]]
          ins == BatchRun(self.input_vocab, e[2])
          outs == BatchRun(self.output_vocab, e[2])
          B == self.batch_size
      IN /\ pair[1].shape = <<MaxOrigLen(ins), B>>
         /\ pair[2].shape = <<MaxOrigLen(outs), B>>
         /\ Len(pair[1].rows) = pair[1].shape[1]
         /\ Len(pair[2].rows) = pair[2].shape[1]
         /\ \A r \in 1..Len(pair[1].rows) : Len(pair[1].rows[r]) = B
         /\ \A r \in 1..Len(pair[2].rows) : Len(pair[2].rows[r]) = B
         /\ \A j \in 1..B :
              /\ Origin(ins[j])[2] = Origin(outs[j])[2]
              /\ Origin(ins[j]) = CorpusIn[Origin(ins[j])[2]]
              /\ Origin(outs[j]) = CorpusOut[Origin(ins[j])[2]]
              /\ Len(NonPad(Column(pair[1], j))) = Len(OrigDoc(ins[j]))
              /\ Rng(NonPad(Column(pair[1], j))) = Rng(OrigDoc(ins[j]))
              /\ Len(NonPad(Column(pair[2], j))) = Len(OrigDoc(outs[j]))
              /\ Rng(NonPad(Column(pair[2], j))) = Rng(OrigDoc(outs[j]))

\* An emitted batch of at least two sentences whose two tensors differ in
\* their first dimension and were both padded.
C2_Witness ==
  /\ Constructed
  /\ self.batch_size >= 2
  /\ Len(gens[1].out) >= 1
  /\ LET pair == gens[1].out[1]
         ins == BatchRun(self.input_vocab, 1)
         outs == BatchRun(self.output_vocab, 1)
     IN /\ pair[1].shape[1] # pair[2].shape[1]
        /\ \E j \in 1..self.batch_size : Len(OrigDoc(ins[j])) < pair[1].shape[1]
        /\ \E j \in 1..self.batch_size : Len(OrigDoc(outs[j])) < pair[2].shape[1]

\* ----------------------------------------------------------------------- C3
\* C3: in every emitted tensor, the column built from a sequence of original
\* length L holds the sequence's tokens in rows 1..L, in their order, and the
\* pad id in every row after them.
C3_PadAtEnd ==
  Constructed =>
    \A e \in Emitted :
      LET pair == gens[e[1]].out[e[2]]
          ins == BatchRun(self.input_vocab, e[2])
          outs == BatchRun(self.output_vocab, e[2])
      IN \A j \in 1..self.batch_size :
           /\ Column(pair[1], j) =
                OrigDoc(ins[j]) \o Pads(pair[1].shape[1] - Len(OrigDoc(ins[j])))
           /\ Column(pair[2], j) =
                OrigDoc(outs[j]) \o Pads(pair[2].shape[1] - Len(OrigDoc(outs[j])))

\* ----------------------------------------------------------------------- C4
\* C4: the encoded-sequence collections of the caller's two vocabularies hold
\* the tokens they held before construction.
C4_VocabUntouched ==
  \A a \in Rng(input_vocab.docs_tokens_encoded) \cup Rng(output_vocab.docs_tokens_encoded) :
    heap[a] = orig[a]

\* ----------------------------------------------------------------------- C5
\* C5: whatever happened on the instance before, every generator has emitted
\* a prefix of what the first complete iteration of a fresh instance emits,
\* and a generator that ended has emitted all of it and ended the same way.
C5_Restartable ==
  Constructed =>
    \A g \in Gens :
      gens[g].status # "idle" =>
        LET ref == FirstIteration
        IN /\ IsPrefix(gens[g].out, ref.out)
           /\ gens[g].status # "running" => gens[g] = ref

\* A second iteration run to its end while the first is suspended after its
\* first batch, on an instance whose lists that batch padded in place.
C5_Witness ==
  /\ Constructed
  /\ heap # Pristine
  /\ gens[1].status = "running"
  /\ Len(gens[1].out) = 1
  /\ gens[2].status = "done"
  /\ Len(gens[2].out) = 1

\* ----------------------------------------------------------------------- C6
\* C6: with both override lists supplied, of equal count M >= 1, and
\* batch_size B >= 1, construction succeeds, no iteration raises, a complete
\* iteration has emitted M // B batches and __len__ returns M // B.
C6_OverridesReplace ==
  (/\ Overridden
   /\ Len(CorpusIn) = Len(CorpusOut)
   /\ Len(CorpusIn) >= 1
   /\ args.batch_size >= 1) =>
    /\ self.state \in {"absent", "ok"}
    /\ Constructed =>
         LET M == Len(CorpusIn)
             B == self.batch_size
         IN /\ \A g \in Gens :
                 /\ gens[g].status \in {"idle", "running", "done"}
                 /\ gens[g].status = "done" => Len(gens[g].out) = M \div B
            /\ lenResult # None =>
                 /\ ~lenResult[1].raised
                 /\ lenResult[1].value = M \div B

\* ----------------------------------------------------------------------- C7
\* C7: with an empty corpus and batch_size >= 1 construction does not raise,
\* a complete iteration has emitted nothing and __len__ returns 0.
C7_EmptyCorpus ==
  (/\ Len(CorpusIn) = 0
   /\ Len(CorpusOut) = 0
   /\ StoredN = 0
   /\ args.batch_size >= 1) =>
    /\ self.state \in {"absent", "ok"}
    /\ \A g \in Gens : gens[g].status \in {"idle", "running", "done"} /\ gens[g].out = <<>>
    /\ lenResult # None => (~lenResult[1].raised /\ lenResult[1].value = 0)

\* ----------------------------------------------------------------------- C8
\* C8: no instance with batch_size <= 0 exists.
C8_BatchSizeChecked ==
  args.batch_size <= 0 => ~Constructed

\* ----------------------------------------------------------------------- C9
\* C9: when the vocabularies' collections differ in count (and batch_size is
\* >= 1), either construction failed or the instance behaves as on the corpus
\* cut to the shorter count: no iteration raises, a complete iteration has
\* emitted min(Nin, Nout) // B batches and __len__ returns that number.
C9_MismatchedCounts ==
  (/\ ~Overridden
   /\ Len(CorpusIn) # Len(CorpusOut)
   /\ args.batch_size >= 1
   /\ Constructed) =>
    LET n == Min2(Len(CorpusIn), Len(CorpusOut))
        B == self.batch_size
    IN /\ \A g \in Gens :
            /\ gens[g].status \in {"idle", "running", "done"}
            /\ gens[g].status = "done" => Len(gens[g].out) = n \div B
       /\ lenResult # None =>
            /\ ~lenResult[1].raised
            /\ lenResult[1].value = n \div B

\* ---------------------------------------------------------------------- C10
\* What a second instance, built now from the same arguments but batch_size
\* B2, emits in one complete iteration, on heap h.
SecondLoaderOutput(h, B2) ==
  LET made == NewLoader(h, input_vocab, output_vocab, [args EXCEPT !.batch_size = B2])
  IN IF made.self.state # "ok" THEN <<>>
     ELSE Drain(made.self, made.heap, NewGen).out

\* C10: the sequences of the caller's override lists hold the tokens they held
\* before construction, so that a second instance built from them with another
\* batch_size emits what it would have emitted had the first never run.
C10_OverridesUntouched ==
  Overridden =>
    /\ \A a \in Rng(CorpusIn) \cup Rng(CorpusOut) : heap[a] = orig[a]
    /\ \A B2 \in (1..MaxBatch) \ {args.batch_size} :
         SecondLoaderOutput(heap, B2) = SecondLoaderOutput(orig, B2)
====
